---- MODULE Spec2Model ----
(***************************************************************************)
(* A model of the log management system: the template parser               *)
(* (app/modules/template_parser.py), the columnar compressor               *)
(* (app/modules/compression.py) and the anomaly / incident engine          *)
(* (app/modules/anomaly_detector.py).                                      *)
(*                                                                         *)
(* Strings are sequences of one-character strings, so that the regular     *)
(* expressions, the tokenizer and the JSON / hex codecs work on the text   *)
(* itself.  Scores are in hundredths (-0.20 is -20), times in minutes.     *)
(***************************************************************************)
EXTENDS Integers, Sequences, FiniteSets, TLC

VARIABLES
    subject,        \* the message under observation (an input, fixed by Init)
    template_dict,  \* TemplateParser.template_dict: template id -> [template, count]
    parse_result,   \* the outcome of the latest parse call
    subject_ids,    \* every template id a parse of subject has returned so far
    ncalls,         \* number of parse calls made
    parsed_batch,       \* the batch handed to compress_log_block (an input)
    compressed_blocks,  \* what compress_log_block returned, <<>> before the call
    decompressed,       \* template id -> what decompress_block returned for its block
    decompress_call,    \* the latest call of decompress_block on a damaged input
    classified,     \* the latest call of classify_severity: score, frequency, result
    now,            \* the clock, in minutes
    incidents,      \* incidents_collection, in insertion order
    merged,         \* for each incident, the batches correlated into it so far
    important,      \* what the latest cycle handed to correlate_incidents
    ncycles,        \* number of detection cycles run
    templates_found,        \* len(templates) as the latest cycle found it
    anomalies_collection,   \* anomalies_collection, in insertion order
    detected,       \* new_anomaly_records of the latest cycle
    cycle_outcome,  \* how the latest cycle ended: "returned" or "raised"
    engine_pc,      \* where run_engine is: "call", "cycle" or "sleep"
    in_flight,      \* number of detection cycles started and not yet ended
    requests,       \* the ingestion requests received, each with the awaits it has left
    logs_collection,        \* logs_collection, in insertion order
    compressed_collection,  \* compressed_collection: template_id -> stored block
    templates_collection,   \* templates_collection: template_id -> template and count
    parse_calls,    \* template id -> number of parse calls that mapped to it
    first_sightings,\* template id -> number of parse calls that took the entry as new
    df,             \* the template documents that the running engineer_features call was given
    feature_rows,   \* feature_rows of that call, so far
    frequency_call  \* the latest call of get_recent_frequencies, <<>> before the first

parserVars == <<subject, template_dict, parse_result, subject_ids, ncalls>>

compressVars == <<parsed_batch, compressed_blocks, decompressed, decompress_call>>

severityVars == <<classified>>

incidentVars == <<now, incidents, merged, important, ncycles>>

ingestVars == <<requests, logs_collection, compressed_collection,
                templates_collection, parse_calls, first_sightings>>

featureVars == <<df, feature_rows, frequency_call>>

engineVars == <<templates_found, anomalies_collection, detected, cycle_outcome,
                engine_pc, in_flight>>

None == "None"

(***************************************************************************)
(* Characters                                                              *)
(***************************************************************************)
Digits == {"0", "1", "2", "3", "4", "5", "6", "7", "8", "9"}

HexLetters == {"a", "b", "c", "d", "e", "f", "A", "B", "C", "D", "E", "F"}

Letters ==
    {"a", "b", "c", "d", "e", "f", "g", "h", "i", "j", "k", "l", "m",
     "n", "o", "p", "q", "r", "s", "t", "u", "v", "w", "x", "y", "z",
     "A", "B", "C", "D", "E", "F", "G", "H", "I", "J", "K", "L", "M",
     "N", "O", "P", "Q", "R", "S", "T", "U", "V", "W", "X", "Y", "Z"}

\* \w
WordChars == Letters \cup Digits \cup {"_"}

\* \s, and what str.strip() and str.split() treat as blank
Whitespace == {" ", "\t", "\n", "\r", "\f"}

(***************************************************************************)
(* A backtracking matcher for the regular expressions the parser uses.     *)
(* A pattern is a sequence of items: a word boundary, a greedy repetition  *)
(* of a character class, or an optional group.                             *)
(***************************************************************************)
WordBoundary == [k |-> "b", set |-> {}, lo |-> 0, hi |-> 0, sub |-> <<>>]

\* [set]{lo,hi}; hi = -1 for no upper limit
Rep(S, lo, hi) == [k |-> "cls", set |-> S, lo |-> lo, hi |-> hi, sub |-> <<>>]

Lit(c) == Rep({c}, 1, 1)

\* (?:items)?
Opt(items) == [k |-> "opt", set |-> {}, lo |-> 0, hi |-> 0, sub |-> items]

IsWordAt(s, i) == i >= 1 /\ i <= Len(s) /\ s[i] \in WordChars

\* \b before position i of s
AtBoundary(s, i) == IsWordAt(s, i - 1) # IsWordAt(s, i)

RECURSIVE RunLen(_, _, _, _)
\* how many characters of S start at position i, at most hi of them
RunLen(S, s, i, hi) ==
    IF hi = 0 \/ i > Len(s) THEN 0
    ELSE IF s[i] \notin S THEN 0
    ELSE 1 + RunLen(S, s, i + 1, hi - 1)

RECURSIVE MatchFirst(_, _, _)
RECURSIVE TryCounts(_, _, _, _, _)
\* The end (the position after the last character) of the first match of
\* items at position i in the engine's priority order, 0 when none.
MatchFirst(items, s, i) ==
    IF items = <<>> THEN i
    ELSE LET it == Head(items)
             rest == Tail(items)
         IN CASE it.k = "b" ->
                    IF AtBoundary(s, i) THEN MatchFirst(rest, s, i) ELSE 0
              [] it.k = "cls" ->
                    LET r == RunLen(it.set, s, i, it.hi)
                    IN IF r < it.lo THEN 0 ELSE TryCounts(rest, s, i, r, it.lo)
              [] it.k = "opt" ->
                    LET e == MatchFirst(it.sub \o rest, s, i)
                    IN IF e # 0 THEN e ELSE MatchFirst(rest, s, i)

\* greedy: the longest repetition first, giving back one character at a time
TryCounts(rest, s, i, c, lo) ==
    IF c < lo THEN 0
    ELSE LET e == MatchFirst(rest, s, i + c)
         IN IF e # 0 THEN e ELSE TryCounts(rest, s, i, c - 1, lo)

RECURSIVE SubFrom(_, _, _, _)
SubFrom(items, repl, s, i) ==
    IF i > Len(s) THEN <<>>
    ELSE LET e == MatchFirst(items, s, i)
         IN IF e > i THEN repl \o SubFrom(items, repl, s, e)
            ELSE <<s[i]>> \o SubFrom(items, repl, s, i + 1)

\* re.sub(pattern, repl, s)
re_sub(items, repl, s) == SubFrom(items, repl, s, 1)

RECURSIVE FindFrom(_, _, _)
FindFrom(items, s, i) ==
    IF i > Len(s) THEN <<>>
    ELSE LET e == MatchFirst(items, s, i)
         IN IF e > i THEN <<SubSeq(s, i, e - 1)>> \o FindFrom(items, s, e)
            ELSE FindFrom(items, s, i + 1)

\* re.findall(pattern, s) for a pattern without capturing groups
re_findall(items, s) == FindFrom(items, s, 1)

(***************************************************************************)
(* TemplateParser                                                          *)
(***************************************************************************)
IP_RE ==
    <<WordBoundary, Rep(Digits, 1, 3), Lit("."), Rep(Digits, 1, 3), Lit("."),
      Rep(Digits, 1, 3), Lit("."), Rep(Digits, 1, 3), WordBoundary>>

UUID_RE == <<WordBoundary, Rep(Digits \cup HexLetters \cup {"-"}, 36, 36), WordBoundary>>

TIMESTAMP_RE ==
    <<WordBoundary, Rep(Digits, 4, 4), Lit("-"), Rep(Digits, 2, 2), Lit("-"),
      Rep(Digits, 2, 2), Rep({" ", "T"}, 1, 1), Rep(Digits, 2, 2), Lit(":"),
      Rep(Digits, 2, 2), Lit(":"), Rep(Digits, 2, 2),
      Opt(<<Lit("."), Rep(Digits, 1, -1)>>), Rep({"Z"}, 0, 1), WordBoundary>>

PATH_RE == <<Lit("/"), Rep(WordChars \cup {"-", "/", "."}, 1, -1)>>

NUM_RE == <<WordBoundary, Rep(Digits, 1, -1), WordBoundary>>

HEX_RE == <<WordBoundary, Rep(HexLetters \cup Digits, 16, -1), WordBoundary>>

\* self.patterns, in order
patterns ==
    << <<IP_RE, <<"<", "I", "P", ">">> >>,
       <<UUID_RE, <<"<", "U", "U", "I", "D", ">">> >>,
       <<TIMESTAMP_RE, <<"<", "T", "I", "M", "E", "S", "T", "A", "M", "P", ">">> >>,
       <<PATH_RE, <<"<", "P", "A", "T", "H", ">">> >>,
       <<NUM_RE, <<"<", "N", "U", "M", ">">> >>,
       <<HEX_RE, <<"<", "H", "E", "X", ">">> >> >>

\* hashlib.md5(...).hexdigest(): a digest that is a function of the template
\* string alone (collisions are not modelled)
get_template_id(template_str) == [md5 |-> template_str]

RECURSIVE lstrip(_)
lstrip(s) == IF s # <<>> /\ Head(s) \in Whitespace THEN lstrip(Tail(s)) ELSE s

RECURSIVE rstrip(_)
rstrip(s) ==
    IF s # <<>> /\ s[Len(s)] \in Whitespace THEN rstrip(SubSeq(s, 1, Len(s) - 1))
    ELSE s

\* str.strip()
strip(s) == rstrip(lstrip(s))

normalize_text(text) == re_sub(<<Rep(Whitespace, 1, -1)>>, <<" ">>, strip(text))

RECURSIVE SplitFrom(_, _, _)
\* the tokens of s from position i on; cur is the token being read
SplitFrom(s, i, cur) ==
    IF i > Len(s) THEN (IF cur = <<>> THEN <<>> ELSE <<cur>>)
    ELSE IF s[i] \in Whitespace
         THEN (IF cur = <<>> THEN <<>> ELSE <<cur>>) \o SplitFrom(s, i + 1, <<>>)
         ELSE SplitFrom(s, i + 1, Append(cur, s[i]))

\* str.split()
split(s) == SplitFrom(s, 1, <<>>)

RECURSIVE join(_, _)
\* sep.join(parts)
join(sep, parts) ==
    IF parts = <<>> THEN <<>>
    ELSE IF Len(parts) = 1 THEN parts[1]
    ELSE parts[1] \o sep \o join(sep, Tail(parts))

RECURSIVE ApplyPatterns(_, _)
\* Step 1 of parse: each pattern in turn, over the result of the previous one
ApplyPatterns(ps, s) ==
    IF ps = <<>> THEN s
    ELSE ApplyPatterns(Tail(ps), re_sub(ps[1][1], ps[1][2], s))

\* re.match(r"^<.*>$", token), for a token without line breaks
IsDynamicToken(token) ==
    Len(token) >= 2 /\ token[1] = "<" /\ token[Len(token)] = ">"

\* Step 2 of parse: template_parts
TemplateParts(tokens) ==
    [i \in 1..Len(tokens) |-> IF IsDynamicToken(tokens[i]) THEN <<"*">> ELSE tokens[i]]

\* log_template of parse, from the raw message
LogTemplate(log_message) ==
    join(<<" ">>, TemplateParts(split(ApplyPatterns(patterns, normalize_text(log_message)))))

\* Step 4 of parse: all_params
AllParams(log_message) ==
    LET m == normalize_text(log_message)
    IN re_findall(NUM_RE, m) \o re_findall(IP_RE, m)

(***************************************************************************)
(* The parser's inputs                                                     *)
(***************************************************************************)
\* longest generated message
MsgLen == 3

\* number of parse calls in a run
MaxCalls == 3

MsgAlphabet == {" ", "g", "7", ".", "<", ">"}

\* "User 123 logged in from 192.168.1.1" (tests/test_core.py)
LoginMessage ==
    <<"U", "s", "e", "r", " ", "1", "2", "3", " ", "l", "o", "g", "g", "e", "d",
      " ", "i", "n", " ", "f", "r", "o", "m", " ", "1", "9", "2", ".", "1", "6",
      "8", ".", "1", ".", "1">>

ScenarioMessages ==
    { LoginMessage,
      \* "123e4567-e89b-12d3-a456-426614174000 up"
      <<"1", "2", "3", "e", "4", "5", "6", "7", "-", "e", "8", "9", "b", "-",
        "1", "2", "d", "3", "-", "a", "4", "5", "6", "-", "4", "2", "6", "6",
        "1", "4", "1", "7", "4", "0", "0", "0", " ", "u", "p">>,
      \* "2024-01-02T03:04:05Z boot"
      <<"2", "0", "2", "4", "-", "0", "1", "-", "0", "2", "T", "0", "3", ":",
        "0", "4", ":", "0", "5", "Z", " ", "b", "o", "o", "t">>,
      \* "2024-01-02 03:04:05.123 boot"
      <<"2", "0", "2", "4", "-", "0", "1", "-", "0", "2", " ", "0", "3", ":",
        "0", "4", ":", "0", "5", ".", "1", "2", "3", " ", "b", "o", "o", "t">>,
      \* "deadbeefdeadbeef00 x"
      <<"d", "e", "a", "d", "b", "e", "e", "f", "d", "e", "a", "d", "b", "e",
        "e", "f", "0", "0", " ", "x">>,
      \* "/var/log/app.log 7"
      <<"/", "v", "a", "r", "/", "l", "o", "g", "/", "a", "p", "p", ".", "l",
        "o", "g", " ", "7">>,
      \* "7/7"
      <<"7", "/", "7">>,
      \* "g/7.7.7.7"
      <<"g", "/", "7", ".", "7", ".", "7", ".", "7">>,
      \* "<html> g"
      <<"<", "h", "t", "m", "l", ">", " ", "g">>,
      \* "  g \t 7 "
      <<" ", " ", "g", " ", "\t", " ", "7", " ">>,
      \* " \t "
      <<" ", "\t", " ">> }

\* every message of at most MsgLen characters over MsgAlphabet, and the scenarios
Messages == UNION {[1..n -> MsgAlphabet] : n \in 0..MsgLen} \cup ScenarioMessages

\* what other callers send between two parses of the subject:
\* "g 42" (the template of "g 7"), the login line, a blank line
Background == { <<"g", " ", "4", "2">>, LoginMessage, <<" ", "\t">> }

\* Steps 1, 2 and 4 of parse read the message alone: they are computed once
\* for each input (@@ makes the table an explicit one)
Mined ==
    [m \in Messages \cup Background |->
        [template |-> LogTemplate(m), parameters |-> AllParams(m)]] @@ <<>>

\* self.template_dict[template_id] of a defaultdict: the entry, created on access
Entry(d, template_id) ==
    IF template_id \in DOMAIN d THEN d[template_id] ELSE [template |-> <<>>, count |-> 0]

Put(d, template_id, e) ==
    [t \in DOMAIN d \cup {template_id} |-> IF t = template_id THEN e ELSE d[t]]

\* a first-sighting branch that also restarts the counter
UpdateTemplateDict_Restart(d, template_id, log_template) ==
    Put(d, template_id, [template |-> log_template, count |-> 1])

\* a registry in which only the first sighting counts
UpdateTemplateDict_FirstOnly(d, template_id, log_template) ==
    IF template_id \in DOMAIN d THEN d
    ELSE Put(d, template_id, [template |-> log_template, count |-> 1])

\* Step 3 of parse: the registry after one sighting of log_template
UpdateTemplateDict(d, template_id, log_template) ==
    LET e == Entry(d, template_id)
        named == IF e.count = 0 THEN [e EXCEPT !.template = log_template] ELSE e
    IN Put(d, template_id, [named EXCEPT !.count = named.count + 1])

\* a parse whose id digests the template together with the registry's size
parse_SizeInId(d, log_message) ==
    IF strip(log_message) = <<>>
    THEN [raised |-> "ValueError", ret |-> <<>>, template_dict |-> d]
    ELSE LET log_template == Mined[log_message].template
             template_id == get_template_id(<<log_template, Cardinality(DOMAIN d)>>)
             d2 == UpdateTemplateDict(d, template_id, log_template)
         IN [raised |-> None,
             ret |-> <<[template_id |-> template_id,
                        template |-> log_template,
                        parameters |-> Mined[log_message].parameters,
                        template_frequency |-> d2[template_id].count]>>,
             template_dict |-> d2]

\* a parse that rejects the empty string only, not a blank one
parse_EmptyOnly(d, log_message) ==
    IF log_message = <<>>
    THEN [raised |-> "ValueError", ret |-> <<>>, template_dict |-> d]
    ELSE LET log_template == Mined[log_message].template
             template_id == get_template_id(log_template)
             d2 == UpdateTemplateDict(d, template_id, log_template)
         IN [raised |-> None,
             ret |-> <<[template_id |-> template_id,
                        template |-> log_template,
                        parameters |-> Mined[log_message].parameters,
                        template_frequency |-> d2[template_id].count]>>,
             template_dict |-> d2]

\* TemplateParser.parse on registry d: what is raised, what is returned (ret,
\* empty when nothing is), and the registry afterwards
parse(d, log_message) ==
    IF strip(log_message) = <<>>
    THEN [raised |-> "ValueError", ret |-> <<>>, template_dict |-> d]
    ELSE LET log_template == Mined[log_message].template
             template_id == get_template_id(log_template)
             d2 == UpdateTemplateDict(d, template_id, log_template)
         IN [raised |-> None,
             ret |-> <<[template_id |-> template_id,
                        template |-> log_template,
                        parameters |-> Mined[log_message].parameters,
                        template_frequency |-> d2[template_id].count]>>,
             template_dict |-> d2]

(***************************************************************************)
(* CompressionModule: JSON, UTF-8, zlib and hex                            *)
(***************************************************************************)
\* the code points of the characters that occur in serialized columns
Ord ==
    ("[" :> 91) @@ ("]" :> 93) @@ ("," :> 44) @@ (" " :> 32) @@ ("\"" :> 34)
    @@ ("\\" :> 92) @@ ("p" :> 112) @@ ("q" :> 113) @@ ("1" :> 49) @@ ("2" :> 50)
    @@ ("7" :> 55)

Chr == [b \in {Ord[c] : c \in DOMAIN Ord} |-> CHOOSE c \in DOMAIN Ord : Ord[c] = b]

HexDigits == <<"0", "1", "2", "3", "4", "5", "6", "7", "8", "9", "a", "b", "c", "d", "e", "f">>

\* the value of a hex digit of either case, -1 for any other character
HexValue(c) ==
    IF \E v \in 1..16 : HexDigits[v] = c
    THEN (CHOOSE v \in 1..16 : HexDigits[v] = c) - 1
    ELSE IF c \in {"A", "B", "C", "D", "E", "F"}
         THEN CASE c = "A" -> 10 [] c = "B" -> 11 [] c = "C" -> 12
                [] c = "D" -> 13 [] c = "E" -> 14 [] c = "F" -> 15
         ELSE -1

RECURSIVE JsonString(_)
\* the body of a JSON string: quotation mark and backslash are escaped
JsonString(str) ==
    IF str = <<>> THEN <<>>
    ELSE (IF Head(str) \in {"\"", "\\"} THEN <<"\\", Head(str)>> ELSE <<Head(str)>>)
             \o JsonString(Tail(str))

\* json.dumps of a list of strings
JsonColumn(col) ==
    <<"[">> \o join(<<",", " ">>, [j \in 1..Len(col) |-> <<"\"">> \o JsonString(col[j]) \o <<"\"">>])
        \o <<"]">>

\* json.dumps(columns), with the default separators
json_dumps(columns) ==
    <<"[">> \o join(<<",", " ">>, [i \in 1..Len(columns) |-> JsonColumn(columns[i])]) \o <<"]">>

\* str.encode("utf-8") of text in the ASCII range
encode(text) == [i \in 1..Len(text) |-> Ord[text[i]]]

\* bytes.decode("utf-8"): fails on a byte that is no character of the model
CanDecode(bytes) == \A i \in 1..Len(bytes) : bytes[i] \in DOMAIN Chr

decode(bytes) == [i \in 1..Len(bytes) |-> Chr[bytes[i]]]

RECURSIVE Adler32A(_)
Adler32A(bytes) ==
    IF bytes = <<>> THEN 1
    ELSE (Adler32A(SubSeq(bytes, 1, Len(bytes) - 1)) + bytes[Len(bytes)]) % 65521

RECURSIVE Adler32B(_)
Adler32B(bytes) ==
    IF bytes = <<>> THEN 0
    ELSE (Adler32B(SubSeq(bytes, 1, Len(bytes) - 1)) + Adler32A(bytes)) % 65521

\* the checksum that ends a zlib stream, as four bytes, high byte first
Adler32(bytes) ==
    LET a == Adler32A(bytes)
        b == Adler32B(bytes)
    IN <<b \div 256, b % 256, a \div 256, a % 256>>

\* zlib.compress(data, level=6): the two header bytes of that level, the
\* deflate data and the checksum.  The deflate data is modelled as one stored
\* block (final, type 00, LEN, NLEN, the bytes), so the stream is a valid one
\* with the same content but not the size of the real one.
zlib_compress(data) ==
    LET n == Len(data)
    IN <<120, 156>>
         \o <<1, n % 256, n \div 256, 255 - (n % 256), 255 - (n \div 256)>>
         \o data \o Adler32(data)

\* whether zlib.decompress accepts the stream: header, block framing, checksum
IsZlibStream(bytes) ==
    /\ Len(bytes) >= 11
    /\ bytes[1] = 120
    /\ (bytes[1] * 256 + bytes[2]) % 31 = 0
    /\ bytes[3] = 1
    /\ bytes[4] + bytes[6] = 255
    /\ bytes[5] + bytes[7] = 255
    /\ Len(bytes) = 11 + bytes[4] + 256 * bytes[5]
    /\ SubSeq(bytes, Len(bytes) - 3, Len(bytes)) = Adler32(SubSeq(bytes, 8, Len(bytes) - 4))

\* zlib.decompress of an accepted stream
zlib_decompress(bytes) == SubSeq(bytes, 8, Len(bytes) - 4)

\* bytes.hex()
hex(bytes) ==
    [i \in 1..(2 * Len(bytes)) |->
        IF i % 2 = 1 THEN HexDigits[(bytes[(i + 1) \div 2] \div 16) + 1]
        ELSE HexDigits[(bytes[i \div 2] % 16) + 1]]

\* whether bytes.fromhex accepts the text: pairs of hex digits
IsHex(text) ==
    /\ Len(text) % 2 = 0
    /\ \A i \in 1..Len(text) : HexValue(text[i]) >= 0

\* bytes.fromhex of an accepted text
fromhex(text) ==
    [i \in 1..(Len(text) \div 2) |-> 16 * HexValue(text[2 * i - 1]) + HexValue(text[2 * i])]

(***************************************************************************)
(* json.loads for arrays and strings.  A parse result is                   *)
(* [ok, value, next]: next is the position after the value.                *)
(***************************************************************************)
JsonFail == [ok |-> FALSE, value |-> <<>>, next |-> 0]

RECURSIVE SkipWs(_, _)
SkipWs(text, i) ==
    IF i <= Len(text) /\ text[i] \in Whitespace THEN SkipWs(text, i + 1) ELSE i

RECURSIVE JsonStringBody(_, _, _)
\* the characters of a string whose opening quotation mark precedes position i
JsonStringBody(text, i, acc) ==
    IF i > Len(text) THEN JsonFail
    ELSE IF text[i] = "\"" THEN [ok |-> TRUE, value |-> acc, next |-> i + 1]
    ELSE IF text[i] = "\\"
         THEN IF i + 1 <= Len(text) /\ text[i + 1] \in {"\"", "\\"}
              THEN JsonStringBody(text, i + 2, Append(acc, text[i + 1]))
              ELSE JsonFail
    ELSE JsonStringBody(text, i + 1, Append(acc, text[i]))

RECURSIVE JsonValue(_, _)
RECURSIVE JsonElements(_, _, _)
\* the value that starts at position i
JsonValue(text, i) ==
    IF i > Len(text) THEN JsonFail
    ELSE IF text[i] = "\"" THEN JsonStringBody(text, i + 1, <<>>)
    ELSE IF text[i] = "["
         THEN LET j == SkipWs(text, i + 1)
              IN IF j <= Len(text) /\ text[j] = "]"
                 THEN [ok |-> TRUE, value |-> <<>>, next |-> j + 1]
                 ELSE JsonElements(text, j, <<>>)
    ELSE JsonFail

\* the elements of an array from position i on; acc holds those read so far
JsonElements(text, i, acc) ==
    LET v == JsonValue(text, i)
    IN IF ~v.ok THEN JsonFail
       ELSE LET j == SkipWs(text, v.next)
            IN IF j > Len(text) THEN JsonFail
               ELSE IF text[j] = "]"
                    THEN [ok |-> TRUE, value |-> Append(acc, v.value), next |-> j + 1]
               ELSE IF text[j] = ","
                    THEN JsonElements(text, SkipWs(text, j + 1), Append(acc, v.value))
               ELSE JsonFail

\* json.loads(text): ok is FALSE where it raises
json_loads(text) ==
    LET v == JsonValue(text, SkipWs(text, 1))
    IN IF v.ok /\ SkipWs(text, v.next) = Len(text) + 1 THEN v ELSE JsonFail

(***************************************************************************)
(* CompressionModule                                                       *)
(***************************************************************************)
RECURSIVE Str(_)
\* str(n) of a natural number
Str(n) ==
    IF n < 10 THEN <<HexDigits[n + 1]>> ELSE Str(n \div 10) \o <<HexDigits[(n % 10) + 1]>>

\* "if template_id:" : None and the empty string are not grouped
Truthy(template_id) == template_id \notin {None, ""}

RECURSIVE GroupIds(_)
\* the keys of grouped_by_template, in insertion order
GroupIds(parsed_logs) ==
    IF parsed_logs = <<>> THEN <<>>
    ELSE LET before == GroupIds(SubSeq(parsed_logs, 1, Len(parsed_logs) - 1))
             id == parsed_logs[Len(parsed_logs)].template_id
         IN IF Truthy(id) /\ \A i \in 1..Len(before) : before[i] # id
            THEN Append(before, id)
            ELSE before

\* the events of one template id, in arrival order
Group(parsed_logs, template_id) ==
    SelectSeq(parsed_logs, LAMBDA log : log.template_id = template_id)

\* grouped_by_template[template_id]
GroupedParams(parsed_logs, template_id) ==
    LET g == Group(parsed_logs, template_id) IN [i \in 1..Len(g) |-> g[i].parameters]

\* the timestamps of the group with the earliest first: the events stamped
\* lowest, then the others, up to the highest
GroupedTimestamps_Sorted(parsed_logs, template_id) ==
    LET g == Group(parsed_logs, template_id)
        lowest == CHOOSE n \in {g[i].timestamp : i \in 1..Len(g)} :
                     \A i \in 1..Len(g) : n <= g[i].timestamp
        early == SelectSeq(g, LAMBDA log : log.timestamp = lowest)
        late == SelectSeq(g, LAMBDA log : log.timestamp # lowest)
    IN [i \in 1..Len(g) |->
          Str(IF i <= Len(early) THEN lowest ELSE late[i - Len(early)].timestamp)]

\* timestamps_by_template[template_id]
GroupedTimestamps(parsed_logs, template_id) ==
    LET g == Group(parsed_logs, template_id) IN [i \in 1..Len(g) |-> Str(g[i].timestamp)]

RECURSIVE AppendRows(_, _, _)
\* the loop over all_params: a row of num_params values adds one value to
\* each column, any other row is skipped
AppendRows(columns, all_params, num_params) ==
    IF all_params = <<>> THEN columns
    ELSE LET param_set == Head(all_params)
             next == IF Len(param_set) = num_params
                     THEN [i \in 1..num_params |-> Append(columns[i], param_set[i])]
                     ELSE columns
         IN AppendRows(next, Tail(all_params), num_params)

\* the parameter matrix as it is: one list for each event
BuildColumns_RowMajor(all_params) == all_params

\* columns of compress_log_block for a non-empty group
BuildColumns(all_params) ==
    LET num_params == Len(all_params[1])
    IN AppendRows([i \in 1..num_params |-> <<>>], all_params, num_params)

\* compressed_blocks[template_id]; the two fields that depend on the size of
\* the deflate data (compressed_size_bytes, compression_ratio) are left out
Block(parsed_logs, template_id) ==
    LET all_params == GroupedParams(parsed_logs, template_id)
        timestamps == GroupedTimestamps(parsed_logs, template_id)
        columnar_json == encode(json_dumps(BuildColumns(all_params)))
        compressed_data == zlib_compress(columnar_json)
    IN [template_id |-> template_id,
        log_count |-> Len(all_params),
        original_size_bytes |-> Len(columnar_json),
        start_time |-> timestamps[1],
        end_time |-> timestamps[Len(timestamps)],
        compressed_params_hex |-> hex(compressed_data)]

\* CompressionModule.compress_log_block: template id -> block
compress_log_block(parsed_logs) ==
    LET ids == GroupIds(parsed_logs)
    IN [template_id \in {ids[i] : i \in 1..Len(ids)} |-> Block(parsed_logs, template_id)]

\* CompressionModule.decompress_block: the columns, [] when any step raises
decompress_block(compressed_hex) ==
    IF ~IsHex(compressed_hex) THEN <<>>
    ELSE LET compressed_bytes == fromhex(compressed_hex)
         IN IF ~IsZlibStream(compressed_bytes) THEN <<>>
            ELSE LET decompressed_json == zlib_decompress(compressed_bytes)
                 IN IF ~CanDecode(decompressed_json) THEN <<>>
                    ELSE LET v == json_loads(decode(decompressed_json))
                         IN IF v.ok THEN v.value ELSE <<>>

(***************************************************************************)
(* The compressor's inputs and calls                                       *)
(***************************************************************************)
\* most events in a batch
MaxBatch == 3

\* parameter values: p and "\ (a quotation mark and a backslash)
ParamValues == { <<"p">>, <<"\"", "\\">> }

ParamLists ==
    { <<>>, << <<"p">> >>, << <<"\"", "\\">> >>, << <<"p">>, <<"\"", "\\">> >> }

\* parsed events: template A at two instants, template B at one, and one
\* event without a template id
Events ==
    [template_id : {"A"}, parameters : ParamLists, timestamp : {1, 2}]
        \cup [template_id : {"B"}, parameters : ParamLists, timestamp : {1}]
        \cup {[template_id |-> "", parameters |-> << <<"p">> >>, timestamp |-> 1]}

Batches == UNION {[1..n -> Events] : n \in 0..MaxBatch}

\* compressor.compress_log_block(parsed_batch)
CompressBatch ==
    /\ compressed_blocks = <<>>
    /\ compressed_blocks' = <<compress_log_block(parsed_batch)>>
    /\ UNCHANGED <<parsed_batch, decompressed, decompress_call>>
    /\ UNCHANGED <<parserVars, severityVars, incidentVars, engineVars, featureVars, ingestVars>>

\* compressor.decompress_block(block["compressed_params_hex"]) for one block
DecompressBlock ==
    /\ compressed_blocks # <<>>
    /\ \E template_id \in DOMAIN compressed_blocks[1] \ DOMAIN decompressed :
          decompressed' =
              Put(decompressed, template_id,
                  decompress_block(compressed_blocks[1][template_id].compressed_params_hex))
    /\ UNCHANGED <<parsed_batch, compressed_blocks, decompress_call>>
    /\ UNCHANGED <<parserVars, severityVars, incidentVars, engineVars, featureVars, ingestVars>>

\* ways in which a stored compressed_params_hex reaches decompress_block:
\* as it is, one character short, with a character that is no hex digit,
\* one byte short, and as the compression of a text that is not JSON
Damages == {"intact", "odd", "nothex", "cut", "notjson"}

Damaged(compressed_hex, damage) ==
    CASE damage = "intact" -> compressed_hex
      [] damage = "odd" -> SubSeq(compressed_hex, 1, Len(compressed_hex) - 1)
      [] damage = "nothex" -> <<"z">> \o Tail(compressed_hex)
      [] damage = "cut" -> SubSeq(compressed_hex, 1, Len(compressed_hex) - 2)
      [] damage = "notjson" -> hex(zlib_compress(encode(<<"[", "[", "\"">>)))

\* compressor.decompress_block(text) by a caller that holds a damaged text.
\* The body of decompress_block is one try block whose handler returns [],
\* so no call raises.
DecompressDamaged ==
    /\ compressed_blocks # <<>>
    /\ \E template_id \in DOMAIN compressed_blocks[1], damage \in Damages :
          LET text == Damaged(compressed_blocks[1][template_id].compressed_params_hex, damage)
          IN decompress_call' = <<[compressed_hex |-> text,
                                   raised |-> None,
                                   ret |-> <<decompress_block(text)>>]>>
    /\ UNCHANGED <<parsed_batch, compressed_blocks, decompressed>>
    /\ UNCHANGED <<parserVars, severityVars, incidentVars, engineVars, featureVars, ingestVars>>

(***************************************************************************)
(* anomaly_detector: severity                                              *)
(***************************************************************************)
Max(a, b) == IF a >= b THEN a ELSE b

severity_map == <<"MEDIUM", "HIGH", "CRITICAL">>

\* a frequency rule that sets the tier instead of raising it
classify_severity_Assign(score, frequency) ==
    LET base_severity == IF score < -20 THEN 3 ELSE IF score < -10 THEN 2 ELSE 1
        boosted == IF frequency > 1000 THEN 3
                   ELSE IF frequency > 500 THEN 2
                   ELSE base_severity
    IN severity_map[boosted]

\* thresholds that include their bound
classify_severity_Inclusive(score, frequency) ==
    LET base_severity == IF score <= -20 THEN 3 ELSE IF score <= -10 THEN 2 ELSE 1
        boosted == IF frequency >= 1000 THEN Max(base_severity, 3)
                   ELSE IF frequency >= 500 THEN Max(base_severity, 2)
                   ELSE base_severity
    IN severity_map[boosted]

\* classify_severity(score, frequency); score in hundredths
classify_severity(score, frequency) ==
    LET base_severity == IF score < -20 THEN 3 ELSE IF score < -10 THEN 2 ELSE 1
        boosted == IF frequency > 1000 THEN Max(base_severity, 3)
                   ELSE IF frequency > 500 THEN Max(base_severity, 2)
                   ELSE base_severity
    IN severity_map[boosted]

\* scores range over -ScoreSpan .. ScoreSpan hundredths
ScoreSpan == 25

Scores == (0 - ScoreSpan)..ScoreSpan

\* recent frequencies around the two thresholds, and the 5000 of scenario 4
Frequencies == {0, 499, 500, 501, 999, 1000, 1001, 5000}

\* df.apply(lambda x: classify_severity(x['anomaly_score'], x['freq_1h'])),
\* one row
Classify ==
    /\ \E score \in Scores, frequency \in Frequencies :
          LET row == [score |-> score, frequency |-> frequency,
                      severity |-> classify_severity(score, frequency)]
          IN classified' = <<row>>
    /\ UNCHANGED <<parserVars, compressVars, incidentVars, engineVars, featureVars, ingestVars>>

(***************************************************************************)
(* anomaly_detector: incident correlation                                  *)
(***************************************************************************)
CORRELATION_WINDOW_MINUTES == 15

\* number of detection cycles in a run
MaxCycles == 3

\* minutes from one cycle's correlation to the next one's
Gaps == {5, 15, 16}

TemplateIds == <<"t1", "t2">>

\* what a cycle can find for a template: no anomaly, or an anomaly with this
\* score and recent frequency (MEDIUM, HIGH, and CRITICAL by frequency)
Findings ==
    { <<>>,
      <<[score |-> -5, freq_1h |-> 0]>>,
      <<[score |-> -15, freq_1h |-> 0]>>,
      <<[score |-> -5, freq_1h |-> 5000]>> }

\* the rows of one cycle: any finding for the first template; for the second
\* none or the HIGH one
FoundRows ==
    {found \in [1..Len(TemplateIds) -> Findings] :
        found[2] \in {<<>>, <<[score |-> -15, freq_1h |-> 0]>>}}

RECURSIVE AnomalyRecords(_, _, _)
\* new_anomaly_records: one record for each anomalous row, in row order
AnomalyRecords(found, i, at) ==
    IF i > Len(TemplateIds) THEN <<>>
    ELSE (IF found[i] = <<>> THEN <<>>
          ELSE <<[template_id |-> TemplateIds[i],
                  template_string |-> "Unknown",
                  severity |-> classify_severity(found[i][1].score, found[i][1].freq_1h),
                  score |-> found[i][1].score,
                  timestamp |-> at]>>)
         \o AnomalyRecords(found, i + 1, at)

\* a filter that lets every anomaly through
ImportantAnomalies_All(new_anomaly_records) == new_anomaly_records

\* important_anomalies of detect_and_store_anomalies
ImportantAnomalies(new_anomaly_records) ==
    SelectSeq(new_anomaly_records, LAMBDA a : a.severity \in {"HIGH", "CRITICAL"})

\* the open incidents created (not: last updated) within the window
ActiveIncidents_ByCreation(incs, at) ==
    {i \in 1..Len(incs) :
        /\ incs[i].created_at >= at - CORRELATION_WINDOW_MINUTES
        /\ incs[i].status = "OPEN"}

\* incidents_collection.find({"last_updated": {"$gte": window_start},
\* "status": "OPEN"}): the positions of the documents found
ActiveIncidents(incs, at) ==
    {i \in 1..Len(incs) :
        /\ incs[i].last_updated >= at - CORRELATION_WINDOW_MINUTES
        /\ incs[i].status = "OPEN"}

\* an update that stores the size of the new batch as the count
ExtendedIncident_CountOfBatch(current_incident, new_anomalies, at) ==
    [current_incident EXCEPT
        !.anomalies = current_incident.anomalies \o new_anomalies,
        !.last_updated = at,
        !.anomaly_count = Len(new_anomalies),
        !.severity = IF \E i \in 1..Len(new_anomalies) : new_anomalies[i].severity = "CRITICAL"
                     THEN "CRITICAL" ELSE current_incident.severity]

\* an update that takes the severity of the new batch alone
ExtendedIncident_SeverityOfBatch(current_incident, new_anomalies, at) ==
    [current_incident EXCEPT
        !.anomalies = current_incident.anomalies \o new_anomalies,
        !.last_updated = at,
        !.anomaly_count = current_incident.anomaly_count + Len(new_anomalies),
        !.severity = IF \E i \in 1..Len(new_anomalies) : new_anomalies[i].severity = "CRITICAL"
                     THEN "CRITICAL" ELSE "HIGH"]

\* an update that also closes the incident once it holds a CRITICAL anomaly
ExtendedIncident_Closing(current_incident, new_anomalies, at) ==
    [current_incident EXCEPT
        !.anomalies = current_incident.anomalies \o new_anomalies,
        !.last_updated = at,
        !.anomaly_count = current_incident.anomaly_count + Len(new_anomalies),
        !.severity = IF \E i \in 1..Len(new_anomalies) : new_anomalies[i].severity = "CRITICAL"
                     THEN "CRITICAL" ELSE current_incident.severity,
        !.status = IF \E i \in 1..Len(new_anomalies) : new_anomalies[i].severity = "CRITICAL"
                   THEN "CLOSED" ELSE current_incident.status]

\* the document after update_one: $push each anomaly, $set last_updated,
\* anomaly_count and severity
ExtendedIncident(current_incident, new_anomalies, at) ==
    [current_incident EXCEPT
        !.anomalies = current_incident.anomalies \o new_anomalies,
        !.last_updated = at,
        !.anomaly_count = current_incident.anomaly_count + Len(new_anomalies),
        !.severity = IF \E i \in 1..Len(new_anomalies) : new_anomalies[i].severity = "CRITICAL"
                     THEN "CRITICAL" ELSE current_incident.severity]

\* new_incident, with the _id that insert_one gives it
NewIncident(new_anomalies, at, id) ==
    LET criticality == {new_anomalies[i].severity : i \in 1..Len(new_anomalies)}
        highest_severity == IF "CRITICAL" \in criticality THEN "CRITICAL"
                            ELSE IF "HIGH" \in criticality THEN "HIGH"
                            ELSE "MEDIUM"
    IN [id |-> id,
        created_at |-> at,
        last_updated |-> at,
        status |-> "OPEN",
        severity |-> highest_severity,
        anomalies |-> new_anomalies,
        anomaly_count |-> Len(new_anomalies),
        title |-> <<"Incident: Burst of ", Len(new_anomalies), " anomalies detected">>]

\* correlate_incidents(new_anomalies) at time at.  The order in which find
\* returns several documents is not fixed, so active_incidents[0] is any of them.
correlate_incidents(new_anomalies, at) ==
    IF new_anomalies = <<>>
    THEN UNCHANGED <<incidents, merged>>
    ELSE LET active_incidents == ActiveIncidents(incidents, at)
         IN IF active_incidents # {}
            THEN \E first \in active_incidents :
                    /\ incidents' = [incidents EXCEPT
                                        ![first] = ExtendedIncident(incidents[first], new_anomalies, at)]
                    /\ merged' = [merged EXCEPT ![first] = Append(merged[first], new_anomalies)]
            ELSE /\ incidents' = Append(incidents, NewIncident(new_anomalies, at, Len(incidents) + 1))
                 /\ merged' = Append(merged, <<new_anomalies>>)

\* what templates_collection.find() can return to a cycle: the number of
\* template documents (the collection only grows)
TemplateCounts == {4, 5}

\* get_data_and_features(): a tuple of three in both cases, (None, None, None)
\* when fewer than 5 templates are known.  None as a whole would be <<>>.
get_data_and_features(templates) ==
    IF templates < 5 THEN <<None, None, None>> ELSE <<"df", "features", "feature_cols">>

\* an update that inserts the document whether or not the key is present
Upsert_Insert(collection, doc) == Append(collection, doc)

\* update_one({"_id": template_id}, {"$set": alert_doc}, upsert=True): the
\* first document with that _id is set to the new fields, or one is inserted
Upsert(collection, doc) ==
    IF \E k \in 1..Len(collection) : collection[k].id = doc.id
    THEN LET first == CHOOSE k \in 1..Len(collection) :
                         /\ collection[k].id = doc.id
                         /\ \A j \in 1..(k - 1) : collection[j].id # doc.id
         IN [collection EXCEPT ![first] = doc]
    ELSE Append(collection, doc)

RECURSIVE StoreAlerts(_, _, _, _)
\* the loop over anomalies_df: one upsert of alert_doc for each anomalous row
StoreAlerts(collection, found, i, at) ==
    IF i > Len(TemplateIds) THEN collection
    ELSE StoreAlerts(
            (IF found[i] = <<>> THEN collection
             ELSE Upsert(collection,
                         [id |-> TemplateIds[i],
                          recent_frequency |-> found[i][1].freq_1h,
                          anomaly_score |-> found[i][1].score,
                          severity |-> classify_severity(found[i][1].score, found[i][1].freq_1h),
                          last_detected |-> at])),
            found, i + 1, at)

\* a scheduler that starts a cycle at every tick
MayStart_Timer(pc) == pc \in {"call", "cycle"}

\* run_engine calls detect_and_store_anomalies only from its loop body, after
\* the previous call and the sleep have ended
MayStart(pc) == pc = "call"

\* a handler that lets the failure end the engine
AfterCycle_Fatal(outcome) == IF outcome = "raised" THEN "dead" ELSE "sleep"

\* after the call: the handler of run_engine catches the exception of a
\* failed cycle, and both ways lead to time.sleep(60)
AfterCycle(outcome) == "sleep"

\* run_engine: the call of detect_and_store_anomalies is made
StartCycle ==
    /\ MayStart(engine_pc)
    /\ ncycles < MaxCycles
    /\ engine_pc' = "cycle"
    /\ in_flight' = in_flight + 1
    /\ UNCHANGED <<templates_found, anomalies_collection, detected, cycle_outcome>>
    /\ UNCHANGED <<parserVars, compressVars, severityVars, incidentVars, ingestVars, featureVars>>

\* one detection cycle (detect_and_store_anomalies) to its end.  The result of
\* get_data_and_features is never None, so with fewer than 5 templates
\* model.fit(None) raises; otherwise the anomalous rows are stored, filtered
\* and correlated.
DetectionCycle ==
    /\ engine_pc = "cycle"
    /\ in_flight > 0
    /\ \E gap \in Gaps, templates \in TemplateCounts, found \in FoundRows :
          LET at == now + gap
              result == get_data_and_features(templates)
              new_anomaly_records == AnomalyRecords(found, 1, at)
              important_anomalies == ImportantAnomalies(new_anomaly_records)
          IN /\ templates >= templates_found
             /\ templates_found' = templates
             /\ now' = at
             /\ IF result = <<>>
                THEN /\ cycle_outcome' = "returned"
                     /\ detected' = <<>>
                     /\ important' = <<>>
                     /\ UNCHANGED <<anomalies_collection, incidents, merged>>
                ELSE IF result[2] = None
                THEN /\ found = [i \in 1..Len(TemplateIds) |-> <<>>]
                     /\ cycle_outcome' = "raised"
                     /\ detected' = <<>>
                     /\ important' = <<>>
                     /\ UNCHANGED <<anomalies_collection, incidents, merged>>
                ELSE /\ cycle_outcome' = "returned"
                     /\ anomalies_collection' = StoreAlerts(anomalies_collection, found, 1, at)
                     /\ detected' = new_anomaly_records
                     /\ important' = important_anomalies
                     /\ IF important_anomalies # <<>>
                        THEN correlate_incidents(important_anomalies, at)
                        ELSE UNCHANGED <<incidents, merged>>
             /\ engine_pc' = AfterCycle(cycle_outcome')
    /\ in_flight' = in_flight - 1
    /\ ncycles' = ncycles + 1
    /\ UNCHANGED <<parserVars, compressVars, severityVars, ingestVars, featureVars>>

\* run_engine: time.sleep(60) ends
Sleep ==
    /\ engine_pc = "sleep"
    /\ engine_pc' = "call"
    /\ UNCHANGED <<templates_found, anomalies_collection, detected, cycle_outcome, in_flight>>
    /\ UNCHANGED <<parserVars, compressVars, severityVars, incidentVars, ingestVars, featureVars>>

(***************************************************************************)
(* The parser's calls                                                      *)
(***************************************************************************)
NoCall == [message |-> <<>>, raised |-> None, ret |-> <<>>]

\* one call parser.parse(m), as a request handler makes it
ParseCall(m) ==
    /\ ncalls < MaxCalls
    /\ LET r == parse(template_dict, m)
       IN /\ template_dict' = r.template_dict
          /\ parse_result' = [message |-> m, raised |-> r.raised, ret |-> r.ret]
          /\ subject_ids' =
                IF m = subject /\ r.raised = None
                THEN subject_ids \cup {r.ret[1].template_id}
                ELSE subject_ids
    /\ ncalls' = ncalls + 1
    /\ UNCHANGED subject
    /\ UNCHANGED <<compressVars, severityVars, incidentVars, engineVars, featureVars, ingestVars>>

ParseSubject == ParseCall(subject)

ParseBackground == \E m \in Background : ParseCall(m)

(***************************************************************************)
(* Ingestion (api/endpoints/logs.py).  The handlers are coroutines on one  *)
(* event loop: a handler runs without interruption up to its next await,   *)
(* so a request is a first step (parse, compress) and then one step for    *)
(* each awaited database call.                                             *)
(***************************************************************************)
\* most requests in a run
MaxRequests == 2

\* "g 7", "g" and a blank message
IngestMessages == { <<"g", " ", "7">>, <<"g">>, <<" ", "\t">> }

\* the bodies of ingest/batch requests
IngestBatches ==
    { <<>>,
      << <<"g", " ", "7">> >>,
      << <<"g", " ", "7">>, <<"g", " ", "7">> >>,
      << <<"g", " ", "7">>, <<"g">> >>,
      << <<"g", " ", "7">>, <<" ", "\t">> >> }

\* the templates of these messages and of the events stored earlier, and the
\* hex digests that stand for their ids
IngestTemplates ==
    << <<"g", " ", "*">>, <<"g">>, <<".">>, <<"g", ".">>, <<"g", " ", "g">> >>

DigestNames == <<"md5(g *)", "md5(g)", "md5(.)", "md5(g.)", "md5(g g)">>

\* the template id as the string that parse returns
hexdigest(template_id) ==
    DigestNames[CHOOSE i \in 1..Len(IngestTemplates) : IngestTemplates[i] = template_id.md5]

\* enriched_log: the request's timestamp and the fields of the parse result
\* (service_name and severity are carried along and not modelled)
Enriched(parsed, timestamp) ==
    [template_id |-> hexdigest(parsed.template_id),
     template |-> parsed.template,
     parameters |-> parsed.parameters,
     template_frequency |-> parsed.template_frequency,
     timestamp |-> timestamp]

RECURSIVE ParseEntries(_, _, _)
\* the loop of ingest_log_batch over log_entries: the parsed events so far,
\* the registry, and what was raised (the loop ends at the first raise)
ParseEntries(d, entries, timestamp) ==
    IF entries = <<>> THEN [raised |-> None, parsed_batch |-> <<>>, template_dict |-> d]
    ELSE LET r == parse(d, Head(entries))
         IN IF r.raised # None
            THEN [raised |-> r.raised, parsed_batch |-> <<>>, template_dict |-> d]
            ELSE LET rest == ParseEntries(r.template_dict, Tail(entries), timestamp)
                 IN [raised |-> rest.raised,
                     parsed_batch |-> <<Enriched(r.ret[1], timestamp)>> \o rest.parsed_batch,
                     template_dict |-> rest.template_dict]

\* the awaited calls of a handler after parse and compress, in order:
\* the insert of the events, one update for each block, one update for each
\* parsed event's template
AwaitedCalls(enriched_logs) ==
    LET blocks == compress_log_block(enriched_logs)
        ids == GroupIds(enriched_logs)
    IN (IF enriched_logs = <<>> THEN <<>>
        ELSE <<[op |-> "insert", key |-> "", doc |-> enriched_logs]>>)
       \o [i \in 1..Len(ids) |-> [op |-> "block", key |-> ids[i], doc |-> blocks[ids[i]]]]
       \o [i \in 1..Len(enriched_logs) |->
             [op |-> "template", key |-> enriched_logs[i].template_id,
              doc |-> [template |-> enriched_logs[i].template,
                       count |-> enriched_logs[i].template_frequency]]]

\* a request as received: what is left to await and the response, if any
Request(kind, raised, enriched_logs) ==
    LET todo == IF raised # None THEN <<>> ELSE AwaitedCalls(enriched_logs)
    IN [kind |-> kind,
        todo |-> todo,
        status |-> IF raised # None THEN 500 ELSE IF todo = <<>> THEN 202 ELSE 0]

RECURSIVE Tally(_, _)
\* counts raised by one for each id of the sequence
Tally(counts, ids) ==
    IF ids = <<>> THEN counts
    ELSE Tally(Put(counts, Head(ids),
                   (IF Head(ids) \in DOMAIN counts THEN counts[Head(ids)] ELSE 0) + 1),
               Tail(ids))

\* the registry's ids of the parsed events
ParsedIds(d2, enriched_logs) ==
    [i \in 1..Len(enriched_logs) |->
        CHOOSE t \in DOMAIN d2 : hexdigest(t) = enriched_logs[i].template_id]

\* what the first step of a handler does to the registry, with the tallies
Received(kind, r) ==
    /\ requests' = Append(requests, Request(kind, r.raised, r.parsed_batch))
    /\ template_dict' = r.template_dict
    /\ parse_calls' = Tally(parse_calls, ParsedIds(r.template_dict, r.parsed_batch))
    /\ first_sightings' =
          Tally(first_sightings,
                ParsedIds(r.template_dict,
                          SelectSeq(r.parsed_batch, LAMBDA log : log.template_frequency = 1)))
    /\ UNCHANGED <<logs_collection, compressed_collection, templates_collection>>
    /\ UNCHANGED <<subject, parse_result, subject_ids, ncalls>>
    /\ UNCHANGED <<compressVars, severityVars, incidentVars, engineVars, featureVars>>

\* ingest_log up to its first await: parse and compress the one event
StartIngestLog ==
    /\ Len(requests) < MaxRequests
    /\ \E message \in IngestMessages :
          Received("ingest", ParseEntries(template_dict, <<message>>, Len(requests) + 1))

\* ingest_log_batch up to its first await: parse every entry, compress
StartIngestBatch ==
    /\ Len(requests) < MaxRequests
    /\ \E log_entries \in IngestBatches :
          Received("batch", ParseEntries(template_dict, log_entries, Len(requests) + 1))

\* the handler of request i goes on to its next await, or returns 202
Resumed(i) ==
    /\ requests' = [requests EXCEPT
                       ![i].todo = Tail(@),
                       ![i].status = IF Len(requests[i].todo) = 1 THEN 202 ELSE @]
    /\ UNCHANGED <<parse_calls, first_sightings>>
    /\ UNCHANGED <<parserVars, compressVars, severityVars, incidentVars, engineVars, featureVars>>

\* await logs_collection.insert_one / insert_many
StoreLogs ==
    \E i \in 1..Len(requests) :
        /\ requests[i].todo # <<>>
        /\ Head(requests[i].todo).op = "insert"
        /\ logs_collection' = logs_collection \o Head(requests[i].todo).doc
        /\ UNCHANGED <<compressed_collection, templates_collection>>
        /\ Resumed(i)

\* await compressed_collection.update_one({"template_id": t_id},
\* {"$set": block}, upsert=True)
StoreBlock ==
    \E i \in 1..Len(requests) :
        /\ requests[i].todo # <<>>
        /\ Head(requests[i].todo).op = "block"
        /\ compressed_collection' =
              Put(compressed_collection, Head(requests[i].todo).key, Head(requests[i].todo).doc)
        /\ UNCHANGED <<logs_collection, templates_collection>>
        /\ Resumed(i)

\* await templates_collection.update_one({"template_id": ...},
\* {"$set": {"template": ..., "count": ...}}, upsert=True)
StoreTemplate ==
    \E i \in 1..Len(requests) :
        /\ requests[i].todo # <<>>
        /\ Head(requests[i].todo).op = "template"
        /\ templates_collection' =
              Put(templates_collection, Head(requests[i].todo).key, Head(requests[i].todo).doc)
        /\ UNCHANGED <<logs_collection, compressed_collection>>
        /\ Resumed(i)

(***************************************************************************)
(* Feature engineering of the detector over what ingestion has stored      *)
(***************************************************************************)
\* the registry and the collections after ingest_log has served one event
\* to its end (@@ makes each table an explicit one)
Served(db, log_entry) ==
    LET parsed_result == parse(db.template_dict, log_entry.message)
        enriched_log == Enriched(parsed_result.ret[1], log_entry.timestamp)
        compressed_block == compress_log_block(<<enriched_log>>)
        t_id == enriched_log.template_id
    IN [template_dict |-> parsed_result.template_dict @@ <<>>,
        logs_collection |-> Append(db.logs_collection, enriched_log),
        compressed_collection |->
            Put(db.compressed_collection, t_id, compressed_block[t_id]) @@ <<>>,
        templates_collection |->
            Put(db.templates_collection, t_id,
                [template |-> enriched_log.template,
                 count |-> enriched_log.template_frequency]) @@ <<>>]

RECURSIVE Ingested(_, _)
\* the same after the events were served one after the other (each state
\* is evaluated once, as the one element of a set)
Ingested(db, events) ==
    IF events = <<>> THEN db
    ELSE Ingested(CHOOSE next \in {Served(served, Head(events)) : served \in {db}} : TRUE,
                  Tail(events))

\* n events with the same message and timestamp
Posted(message, timestamp, n) ==
    [i \in 1..n |-> [message |-> message, timestamp |-> timestamp]]

\* a new server and an empty database
Fresh ==
    [template_dict |-> <<>>, logs_collection |-> <<>>,
     compressed_collection |-> <<>>, templates_collection |-> <<>>]

\* four templates, one event each
Quiet ==
    Ingested(Fresh,
             Posted(<<".">>, 0, 1) \o Posted(<<"g", ".">>, 0, 1)
                \o Posted(<<"g", " ", "g">>, 0, 1) \o Posted(<<"g", " ", "7">>, 100, 1))

\* five templates, with 2 early events of "g *"
Early ==
    Ingested(Fresh,
             Posted(<<"g", " ", "7">>, 0, 2) \o Posted(<<".">>, 0, 1)
                \o Posted(<<"g", ".">>, 0, 1) \o Posted(<<"g", " ", "g">>, 0, 1)
                \o Posted(<<"g">>, 0, 1))

\* five templates, and 25 events of "g *" at minute 100 after the 2 early ones
Busy == Ingested(Early, Posted(<<"g", " ", "7">>, 100, 25))

\* what was ingested before the detector is looked at
Histories == {Quiet, Busy}

\* the detector's clock: 30 minutes after the oldest events, or 130
Clocks == {30, 130}

\* the _id that the upsert gave to a new template document: a generated
\* ObjectId, one for each document
ObjectId(n) == [type |-> "ObjectId", value |-> n]

\* a string as a query value
StringValue(text) == [type |-> "str", value |-> text]

\* list(templates_collection.find()): the documents as the upserts of
\* ingestion made them, with the keys _id, template_id, template and count
TemplateDocuments(coll) ==
    LET positions == SelectSeq([i \in 1..Len(DigestNames) |-> i],
                               LAMBDA i : DigestNames[i] \in DOMAIN coll)
    IN [k \in 1..Len(positions) |->
          ("_id" :> ObjectId(positions[k]))
             @@ ("template_id" :> DigestNames[positions[k]])
             @@ ("template" :> coll[DigestNames[positions[k]]].template)
             @@ ("count" :> coll[DigestNames[positions[k]]].count)]

\* row.get(key, default)
Get(row, key, default) == IF key \in DOMAIN row THEN row[key] ELSE default

\* now - timedelta(hours=24), taken as 24 minutes
last_24h_Minutes(at) == at - 24

\* now - timedelta(hours=1), in minutes
last_1h(at) == at - 60

\* now - timedelta(hours=24), in minutes
last_24h(at) == at - 24 * 60

\* logs_collection.count_documents({"template_id": template_id,
\* "timestamp": {"$gte": since}}): the stored template_id is a string, and a
\* value of another type equals no string
count_documents(logs, template_id, since) ==
    Cardinality({i \in 1..Len(logs) :
                    /\ template_id.type = "str"
                    /\ logs[i].template_id = template_id.value
                    /\ logs[i].timestamp >= since})

\* burst_ratio = freq_1h / max(freq_24h / 24, 1), as a fraction
burst_ratio(freq_1h, freq_24h) ==
    [num |-> 24 * freq_1h, den |-> Max(freq_24h, 24)]

\* the feature row of engineer_features for a row of df (np.log1p is kept
\* as a term)
FeatureRow(row, freq_1h, freq_24h) ==
    LET freq_total == Get(row, "frequency", 0)
    IN [template_id |-> row["_id"],
        freq_total |-> freq_total,
        frequency_log |-> [log1p |-> freq_total],
        burst_ratio |-> burst_ratio(freq_1h, freq_24h),
        freq_1h |-> freq_1h,
        freq_24h |-> freq_24h]

\* the detector is inside engineer_features or get_recent_frequencies
Engineering == df # <<>> /\ Len(feature_rows) < Len(df)

Counting == frequency_call # <<>> /\ frequency_call[1].pc = "24h"

\* get_data_and_features up to the loop of engineer_features: read the
\* template documents, give up if there are fewer than 5
GetDataAndFeatures ==
    /\ ~Engineering
    /\ ~Counting
    /\ LET templates == TemplateDocuments(templates_collection)
       IN IF Len(templates) < 5
          THEN df' = <<>>
          ELSE df' = templates
    /\ feature_rows' = <<>>
    /\ frequency_call' = <<>>
    /\ UNCHANGED <<parserVars, compressVars, severityVars, incidentVars, engineVars, ingestVars>>

\* get_recent_frequencies up to its second query: the clock is read and the
\* events of the last hour are counted
FirstQuery(caller, template_id) ==
    /\ frequency_call' =
          <<[caller |-> caller,
             template_id |-> template_id,
             now |-> now,
             freq_1h |-> count_documents(logs_collection, template_id, last_1h(now)),
             freq_24h |-> 0,
             pc |-> "24h"]>>
    /\ UNCHANGED <<df, feature_rows>>
    /\ UNCHANGED <<parserVars, compressVars, severityVars, incidentVars, engineVars, ingestVars>>

\* the loop of engineer_features calls get_recent_frequencies(row["_id"])
\* for the next row of df
RowFrequencies ==
    /\ Engineering
    /\ ~Counting
    /\ FirstQuery("engineer_features", df[Len(feature_rows) + 1]["_id"])

\* get_recent_frequencies called with the template id of the event stored last
StoredFrequencies ==
    /\ ~Engineering
    /\ ~Counting
    /\ logs_collection # <<>>
    /\ FirstQuery("get_recent_frequencies",
                  StringValue(logs_collection[Len(logs_collection)].template_id))

\* the second query of get_recent_frequencies and its return; in the loop of
\* engineer_features the feature row is appended
SecondQuery ==
    /\ Counting
    /\ LET call == frequency_call[1]
           freq_24h == count_documents(logs_collection, call.template_id, last_24h(call.now))
       IN /\ frequency_call' = <<[call EXCEPT !.freq_24h = freq_24h, !.pc = "returned"]>>
          /\ feature_rows' =
                IF call.caller = "engineer_features"
                THEN Append(feature_rows,
                            FeatureRow(df[Len(feature_rows) + 1], call.freq_1h, freq_24h))
                ELSE feature_rows
    /\ UNCHANGED df
    /\ UNCHANGED <<parserVars, compressVars, severityVars, incidentVars, engineVars, ingestVars>>

(***************************************************************************)
(* Specifications, one for each component: its inputs are drawn by Init,   *)
(* the other components stay as constructed                                *)
(***************************************************************************)
vars == <<parserVars, compressVars, severityVars, incidentVars, engineVars, ingestVars,
          featureVars>>

\* a fresh TemplateParser and the message to watch
ParserInit ==
    /\ subject \in Messages
    /\ template_dict = <<>>
    /\ parse_result = NoCall
    /\ subject_ids = {}
    /\ ncalls = 0
    /\ parsed_batch = <<>>
    /\ compressed_blocks = <<>>
    /\ decompressed = <<>>
    /\ decompress_call = <<>>
    /\ classified = <<>>
    /\ now = 0
    /\ incidents = <<>>
    /\ merged = <<>>
    /\ important = <<>>
    /\ ncycles = 0
    /\ templates_found = 0
    /\ anomalies_collection = <<>>
    /\ detected = <<>>
    /\ cycle_outcome = None
    /\ engine_pc = "call"
    /\ in_flight = 0
    /\ requests = <<>>
    /\ logs_collection = <<>>
    /\ compressed_collection = <<>>
    /\ templates_collection = <<>>
    /\ parse_calls = <<>>
    /\ first_sightings = <<>>
    /\ df = <<>>
    /\ feature_rows = <<>>
    /\ frequency_call = <<>>

ParserNext ==
    \/ ParseSubject
    \/ ParseBackground

SpecParser == ParserInit /\ [][ParserNext]_vars

\* a batch of parsed events, not yet compressed
CompressInit ==
    /\ parsed_batch \in Batches
    /\ compressed_blocks = <<>>
    /\ decompressed = <<>>
    /\ decompress_call = <<>>
    /\ subject = <<>>
    /\ template_dict = <<>>
    /\ parse_result = NoCall
    /\ subject_ids = {}
    /\ ncalls = 0
    /\ classified = <<>>
    /\ now = 0
    /\ incidents = <<>>
    /\ merged = <<>>
    /\ important = <<>>
    /\ ncycles = 0
    /\ templates_found = 0
    /\ anomalies_collection = <<>>
    /\ detected = <<>>
    /\ cycle_outcome = None
    /\ engine_pc = "call"
    /\ in_flight = 0
    /\ requests = <<>>
    /\ logs_collection = <<>>
    /\ compressed_collection = <<>>
    /\ templates_collection = <<>>
    /\ parse_calls = <<>>
    /\ first_sightings = <<>>
    /\ df = <<>>
    /\ feature_rows = <<>>
    /\ frequency_call = <<>>

CompressNext ==
    \/ CompressBatch
    \/ DecompressBlock

SpecCompress == CompressInit /\ [][CompressNext]_vars

MalformedNext ==
    \/ CompressBatch
    \/ DecompressDamaged

\* a batch is compressed and its blocks are decompressed from damaged texts
SpecMalformed == CompressInit /\ [][MalformedNext]_vars

\* a fresh parser and empty collections, no request received
IngestInit ==
    /\ requests = <<>>
    /\ logs_collection = <<>>
    /\ compressed_collection = <<>>
    /\ templates_collection = <<>>
    /\ parse_calls = <<>>
    /\ first_sightings = <<>>
    /\ subject = <<>>
    /\ template_dict = <<>>
    /\ parse_result = NoCall
    /\ subject_ids = {}
    /\ ncalls = 0
    /\ parsed_batch = <<>>
    /\ compressed_blocks = <<>>
    /\ decompressed = <<>>
    /\ decompress_call = <<>>
    /\ classified = <<>>
    /\ now = 0
    /\ incidents = <<>>
    /\ merged = <<>>
    /\ important = <<>>
    /\ ncycles = 0
    /\ templates_found = 0
    /\ anomalies_collection = <<>>
    /\ detected = <<>>
    /\ cycle_outcome = None
    /\ engine_pc = "call"
    /\ in_flight = 0
    /\ df = <<>>
    /\ feature_rows = <<>>
    /\ frequency_call = <<>>

IngestNext ==
    \/ StartIngestLog
    \/ StartIngestBatch
    \/ StoreLogs
    \/ StoreBlock
    \/ StoreTemplate

SpecIngest == IngestInit /\ [][IngestNext]_vars

\* nothing classified yet, an empty incidents collection
DetectorInit ==
    /\ classified = <<>>
    /\ now = 0
    /\ incidents = <<>>
    /\ merged = <<>>
    /\ important = <<>>
    /\ ncycles = 0
    /\ templates_found = 0
    /\ anomalies_collection = <<>>
    /\ detected = <<>>
    /\ cycle_outcome = None
    /\ engine_pc = "call"
    /\ in_flight = 0
    /\ requests = <<>>
    /\ logs_collection = <<>>
    /\ compressed_collection = <<>>
    /\ templates_collection = <<>>
    /\ parse_calls = <<>>
    /\ first_sightings = <<>>
    /\ subject = <<>>
    /\ template_dict = <<>>
    /\ parse_result = NoCall
    /\ subject_ids = {}
    /\ ncalls = 0
    /\ parsed_batch = <<>>
    /\ compressed_blocks = <<>>
    /\ decompressed = <<>>
    /\ decompress_call = <<>>
    /\ df = <<>>
    /\ feature_rows = <<>>
    /\ frequency_call = <<>>

SeverityNext == Classify

SpecSeverity == DetectorInit /\ [][SeverityNext]_vars

IncidentNext ==
    \/ StartCycle
    \/ DetectionCycle
    \/ Sleep

SpecIncident == DetectorInit /\ [][IncidentNext]_vars

\* the engine keeps running: the thread of run_engine is scheduled, a cycle
\* ends (its database calls return or time out) and the sleep ends
SpecEngine ==
    /\ DetectorInit
    /\ [][IncidentNext]_vars
    /\ WF_vars(StartCycle)
    /\ WF_vars(DetectionCycle)
    /\ WF_vars(Sleep)

\* the server after one of the histories was ingested, and the detector
\* about to read what it stored
FeaturesInit ==
    /\ \E db \in Histories :
          /\ template_dict = db.template_dict
          /\ logs_collection = db.logs_collection
          /\ compressed_collection = db.compressed_collection
          /\ templates_collection = db.templates_collection
    /\ now \in Clocks
    /\ requests = <<>>
    /\ parse_calls = <<>>
    /\ first_sightings = <<>>
    /\ df = <<>>
    /\ feature_rows = <<>>
    /\ frequency_call = <<>>
    /\ subject = <<>>
    /\ parse_result = NoCall
    /\ subject_ids = {}
    /\ ncalls = 0
    /\ parsed_batch = <<>>
    /\ compressed_blocks = <<>>
    /\ decompressed = <<>>
    /\ decompress_call = <<>>
    /\ classified = <<>>
    /\ incidents = <<>>
    /\ merged = <<>>
    /\ important = <<>>
    /\ ncycles = 0
    /\ templates_found = 0
    /\ anomalies_collection = <<>>
    /\ detected = <<>>
    /\ cycle_outcome = None
    /\ engine_pc = "call"
    /\ in_flight = 0

\* the detector's feature engineering beside the single-event ingestion
FeaturesNext ==
    \/ StartIngestLog
    \/ StoreLogs
    \/ StoreBlock
    \/ StoreTemplate
    \/ GetDataAndFeatures
    \/ RowFrequencies
    \/ StoredFrequencies
    \/ SecondQuery

SpecFeatures == FeaturesInit /\ [][FeaturesNext]_vars

(***************************************************************************)
(* Properties of the parser                                                *)
(***************************************************************************)
HtmlMessage == <<"<", "h", "t", "m", "l", ">", " ", "g">>

\* the counter of template id t in registry d, 0 when d has no entry for it
Count(d, t) == IF t \in DOMAIN d THEN d[t].count ELSE 0

IsParseStep == ncalls' = ncalls + 1

\* C1: every parse of one text returns the same template id, whatever the
\* registry holds and whatever was parsed before: the parses of the subject
\* have returned at most one id.
C1_SameTextSameId == Cardinality(subject_ids) <= 1

\* the subject parsed a second time, after a call that added another template
C1_Witness ==
    /\ subject = HtmlMessage
    /\ parse_result.message = subject
    /\ parse_result.raised = None
    /\ Len(parse_result.ret) = 1
    /\ parse_result.ret[1].template_frequency = 2
    /\ Cardinality(DOMAIN template_dict) >= 2

\* C3: a successful parse raises the counter of its template id by exactly
\* one, leaves every other counter alone, and returns the counter's value
\* after the increment as template_frequency; so k calls on one id add k.
C3_MonotonicFrequency ==
    [][(IsParseStep /\ parse_result'.raised = None) =>
          LET t == parse_result'.ret[1].template_id
          IN /\ Count(template_dict', t) = Count(template_dict, t) + 1
             /\ parse_result'.ret[1].template_frequency = Count(template_dict', t)
             /\ \A u \in DOMAIN template_dict' \ {t} :
                    Count(template_dict', u) = Count(template_dict, u)]_vars

\* three calls have mapped to one template id, the last from another text
C3_Witness ==
    /\ parse_result.raised = None
    /\ Len(parse_result.ret) = 1
    /\ parse_result.ret[1].template_frequency = 3
    /\ Count(template_dict, parse_result.ret[1].template_id) = 3
    /\ parse_result.message # subject

\* C4: parsing "User 123 logged in from 192.168.1.1" returns the template
\* "User * logged in from *" and exactly the parameters "123", "192.168.1.1".
C4_LoginParameters ==
    (parse_result.message = LoginMessage /\ parse_result.raised = None) =>
        /\ parse_result.ret[1].template =
              <<"U", "s", "e", "r", " ", "*", " ", "l", "o", "g", "g", "e", "d",
                " ", "i", "n", " ", "f", "r", "o", "m", " ", "*">>
        /\ parse_result.ret[1].parameters =
              << <<"1", "2", "3">>,
                 <<"1", "9", "2", ".", "1", "6", "8", ".", "1", ".", "1">> >>

\* C10: a parse of an empty or blank message raises the parser's invalid
\* input error (ValueError), returns nothing and leaves the registry as it was.
C10_BlankRejected ==
    [][(IsParseStep /\ strip(parse_result'.message) = <<>>) =>
          /\ parse_result'.raised = "ValueError"
          /\ parse_result'.ret = <<>>
          /\ template_dict' = template_dict]_vars

\* a blank message was rejected while the registry held templates
C10_Witness ==
    /\ ncalls > 0
    /\ parse_result.message # <<>>
    /\ strip(parse_result.message) = <<>>
    /\ parse_result.raised = "ValueError"
    /\ DOMAIN template_dict # {}

\* <IP>, <UUID>, <TIMESTAMP>, <PATH>, <NUM>, <HEX>
PlaceholderTags == {patterns[i][2] : i \in 1..Len(patterns)}

\* the template in which exactly the placeholder tags are wildcards
TagsAsWildcards(log_message) ==
    LET tokens == split(ApplyPatterns(patterns, normalize_text(log_message)))
    IN join(<<" ">>, [i \in 1..Len(tokens) |->
                        IF tokens[i] \in PlaceholderTags THEN <<"*">> ELSE tokens[i]])

\* C20: in the template that parse returns, a token of the substituted
\* message is the wildcard if and only if it is one of the six placeholder
\* tags; every other token is kept as it is.
C20_OnlyTagsAreWildcards ==
    (ncalls > 0 /\ parse_result.ret # <<>>) =>
        parse_result.ret[1].template = TagsAsWildcards(parse_result.message)

(***************************************************************************)
(* Properties of the compressor                                            *)
(***************************************************************************)
\* the events of the batch that carry template id t, in arrival order
EventsOf(t) == SelectSeq(parsed_batch, LAMBDA ev : ev.template_id = t)

\* all events of template id t have the same number of parameters
UniformCounts(t) ==
    \A i, j \in 1..Len(EventsOf(t)) :
        Len(EventsOf(t)[i].parameters) = Len(EventsOf(t)[j].parameters)

\* column i holds parameter i of each event of template id t, in arrival order
Transposed(t) ==
    LET g == EventsOf(t)
    IN [i \in 1..Len(g[1].parameters) |-> [j \in 1..Len(g) |-> g[j].parameters[i]]]

\* the template ids of the batch that compress_log_block groups
BatchIds == {parsed_batch[i].template_id : i \in 1..Len(parsed_batch)} \ {"", None}

\* C2: round trip: compress_log_block returns a block for every template id
\* of the batch, and when the events of a template id all have the same
\* number of parameters, decompress_block of that block's
\* compressed_params_hex is exactly the transposed columns of those events.
C2_RoundTrip ==
    /\ compressed_blocks # <<>> => DOMAIN compressed_blocks[1] = BatchIds
    /\ \A t \in DOMAIN decompressed :
          UniformCounts(t) => decompressed[t] = Transposed(t)

\* three events of template A, one parameter each, both values present
\* (as in test_compression_integrity), compressed and decompressed
C2_Witness ==
    /\ "A" \in DOMAIN decompressed
    /\ Len(EventsOf("A")) = 3
    /\ UniformCounts("A")
    /\ decompressed["A"] = << << <<"p">>, <<"\"", "\\">>, <<"p">> >> >>

\* the events of template id t that compress_log_block keeps in the block:
\* those with as many parameters as the first one
KeptEvents(t) ==
    SelectSeq(EventsOf(t),
              LAMBDA ev : Len(ev.parameters) = Len(EventsOf(t)[1].parameters))

\* C13: an event whose parameter count differs from that of the first event
\* of its group is left out of the block's columns, and the block's log_count
\* is the number of events kept.
C13_LogCountIsKept ==
    compressed_blocks # <<>> =>
        \A t \in DOMAIN compressed_blocks[1] :
            /\ t \in DOMAIN decompressed /\ decompressed[t] # <<>>
                  => Len(decompressed[t][1]) = Len(KeptEvents(t))
            /\ compressed_blocks[1][t].log_count = Len(KeptEvents(t))

\* C22: start_time and end_time of a block are the timestamps of the first
\* and of the last event of its template id in the batch, in arrival order,
\* whether or not these events were kept in the block.
C22_FirstAndLastArrival ==
    compressed_blocks # <<>> =>
        \A t \in DOMAIN compressed_blocks[1] :
            /\ compressed_blocks[1][t].start_time = Str(EventsOf(t)[1].timestamp)
            /\ compressed_blocks[1][t].end_time =
                  Str(EventsOf(t)[Len(EventsOf(t))].timestamp)

\* the events of template A arrived with the later timestamp first, and the
\* last of them was dropped from the block
C22_Witness ==
    /\ compressed_blocks # <<>>
    /\ "A" \in DOMAIN compressed_blocks[1]
    /\ compressed_blocks[1]["A"].start_time = <<"2">>
    /\ compressed_blocks[1]["A"].end_time = <<"1">>
    /\ Len(KeptEvents("A")) < Len(EventsOf("A"))
    /\ Len(EventsOf("A")[Len(EventsOf("A"))].parameters) # Len(EventsOf("A")[1].parameters)

\* the text is not hex, not a compressed stream, or not serialized columns
Malformed(compressed_hex) ==
    \/ ~IsHex(compressed_hex)
    \/ ~IsZlibStream(fromhex(compressed_hex))
    \/ ~CanDecode(zlib_decompress(fromhex(compressed_hex)))
    \/ ~json_loads(decode(zlib_decompress(fromhex(compressed_hex)))).ok

\* C11: decompress_block of a malformed text raises MalformedBlockError and
\* returns nothing, and of a well-formed text (also one of zero columns) it
\* raises nothing and returns the columns.
C11_MalformedSurfaced ==
    decompress_call # <<>> =>
        IF Malformed(decompress_call[1].compressed_hex)
        THEN /\ decompress_call[1].raised = "MalformedBlockError"
             /\ decompress_call[1].ret = <<>>
        ELSE /\ decompress_call[1].raised = None
             /\ decompress_call[1].ret # <<>>

(***************************************************************************)
(* Properties of the severity classification                               *)
(***************************************************************************)
\* the order MEDIUM < HIGH < CRITICAL
SeverityRank(severity) ==
    IF severity = "CRITICAL" THEN 3 ELSE IF severity = "HIGH" THEN 2 ELSE 1

\* C5: severity is monotonic: of two classifications with the same recent
\* frequency the one with the lower score is not less severe, and of two
\* with the same score the one with the higher frequency is not less severe.
\* Stated for every two consecutive classifications, which are arbitrary pairs.
C5_SeverityMonotonic ==
    [][(classified # <<>> /\ classified' # <<>>) =>
          LET a == classified[1]
              b == classified'[1]
          IN /\ (b.frequency = a.frequency /\ b.score <= a.score)
                    => SeverityRank(b.severity) >= SeverityRank(a.severity)
             /\ (b.score = a.score /\ b.frequency >= a.frequency)
                    => SeverityRank(b.severity) >= SeverityRank(a.severity)]_vars

\* a score of HIGH rank kept HIGH by a frequency between the two thresholds
C5_Witness ==
    /\ classified # <<>>
    /\ classified[1].score = -15
    /\ classified[1].frequency = 501
    /\ classified[1].severity = "HIGH"

\* the tier of the score alone: below -0.20, below -0.10, otherwise
ScoreTier(score) == IF score < -20 THEN 3 ELSE IF score < -10 THEN 2 ELSE 1

\* the tier of the frequency alone: above 1000, above 500, otherwise
FrequencyTier(frequency) ==
    IF frequency > 1000 THEN 3 ELSE IF frequency > 500 THEN 2 ELSE 1

\* C6: the severity is the higher of the score tier and the frequency tier,
\* both with strict thresholds; a frequency above 1000 is CRITICAL whatever
\* the score.
C6_MaxOfTiers ==
    classified # <<>> =>
        LET r == classified[1]
        IN /\ SeverityRank(r.severity) =
                 (IF ScoreTier(r.score) >= FrequencyTier(r.frequency)
                  THEN ScoreTier(r.score) ELSE FrequencyTier(r.frequency))
           /\ r.frequency > 1000 => r.severity = "CRITICAL"

\* frequency 5000 with a score of the lowest tier is CRITICAL
C6_Witness ==
    /\ classified # <<>>
    /\ classified[1].frequency = 5000
    /\ classified[1].score >= -10
    /\ classified[1].severity = "CRITICAL"

(***************************************************************************)
(* Properties of the incident correlation                                  *)
(***************************************************************************)
Incidents == 1..Len(incidents)

RECURSIVE Flatten(_)
\* the anomalies of a sequence of batches, in order
Flatten(batches) ==
    IF batches = <<>> THEN <<>> ELSE Head(batches) \o Flatten(Tail(batches))

\* the time at which a batch was correlated
BatchTime(batch) == batch[1].timestamp

\* C7: an incident's anomaly_count is the sum of the sizes of the batches
\* correlated into it and the length of its anomalies list, and two batches
\* correlated within 15 minutes of each other are never in different incidents.
C7_MergeCount ==
    /\ \A i \in Incidents :
          /\ incidents[i].anomaly_count = Len(Flatten(merged[i]))
          /\ incidents[i].anomaly_count = Len(incidents[i].anomalies)
    /\ \A i, j \in Incidents :
          i # j =>
             \A b \in 1..Len(merged[i]), c \in 1..Len(merged[j]) :
                \/ BatchTime(merged[i][b]) > BatchTime(merged[j][c]) + 15
                \/ BatchTime(merged[j][c]) > BatchTime(merged[i][b]) + 15

\* an incident made of a batch of one and a batch of two counts three
C7_Witness ==
    \E i \in Incidents :
        /\ Len(merged[i]) = 2
        /\ Len(merged[i][1]) = 1
        /\ Len(merged[i][2]) = 2
        /\ incidents[i].anomaly_count = 3

\* the highest rank among the anomalies
HighestRank(anomalies) ==
    CHOOSE r \in 1..3 :
        /\ \E k \in 1..Len(anomalies) : SeverityRank(anomalies[k].severity) = r
        /\ \A k \in 1..Len(anomalies) : SeverityRank(anomalies[k].severity) <= r

\* C8: an incident's severity is the highest severity among all anomalies
\* correlated into it, and an incident's severity never decreases.
C8_SeverityIsMax ==
    /\ [](\A i \in Incidents :
             SeverityRank(incidents[i].severity) = HighestRank(Flatten(merged[i])))
    /\ [][\A i \in Incidents :
             i <= Len(incidents') =>
                SeverityRank(incidents'[i].severity) >= SeverityRank(incidents[i].severity)]_vars

\* a CRITICAL incident extended by a batch of HIGH anomalies only
C8_Witness ==
    \E i \in Incidents :
        /\ Len(merged[i]) >= 2
        /\ incidents[i].severity = "CRITICAL"
        /\ \A k \in 1..Len(merged[i][Len(merged[i])]) :
              merged[i][Len(merged[i])][k].severity = "HIGH"

\* C9: a cycle that correlates a non-empty batch extends one OPEN incident
\* last updated within the trailing 15 minutes, sets its last_updated to now
\* and creates nothing, if there is such an incident; otherwise it creates
\* exactly one OPEN incident with created_at = last_updated = now.  All other
\* incidents are left as they were.
C9_CreateOrExtend ==
    [][(ncycles' = ncycles + 1 /\ important' # <<>>) =>
          LET recent == {i \in Incidents : /\ incidents[i].status = "OPEN"
                                           /\ incidents[i].last_updated >= now' - 15
                                           /\ incidents[i].last_updated <= now'}
          IN IF recent # {}
             THEN /\ Len(incidents') = Len(incidents)
                  /\ \E i \in recent :
                        /\ incidents'[i].last_updated = now'
                        /\ incidents'[i].anomalies = incidents[i].anomalies \o important'
                        /\ incidents'[i].created_at = incidents[i].created_at
                        /\ \A j \in Incidents \ {i} : incidents'[j] = incidents[j]
             ELSE /\ Len(incidents') = Len(incidents) + 1
                  /\ incidents'[Len(incidents')].status = "OPEN"
                  /\ incidents'[Len(incidents')].created_at = now'
                  /\ incidents'[Len(incidents')].last_updated = now'
                  /\ incidents'[Len(incidents')].anomalies = important'
                  /\ \A j \in Incidents : incidents'[j] = incidents[j]]_vars

\* a first batch at T, a second at T+5 in the same incident, and a later
\* batch that found no recent incident and opened another one
C9_Witness ==
    /\ Len(incidents) = 2
    /\ Len(merged[1]) = 2
    /\ BatchTime(merged[1][2]) = BatchTime(merged[1][1]) + 5
    /\ incidents[1].last_updated = BatchTime(merged[1][2])
    /\ incidents[2].created_at = now
    /\ incidents[2].status = "OPEN"

\* C23: no incident is ever closed: every incident has status OPEN after any
\* sequence of detection cycles, and no step changes an incident's status.
C23_NeverClosed ==
    /\ [](\A i \in Incidents : incidents[i].status = "OPEN")
    /\ [][\A i \in Incidents :
             i <= Len(incidents') /\ incidents'[i].status = incidents[i].status]_vars

\* an incident that was extended twice, the last time by a CRITICAL anomaly,
\* is still OPEN
C23_Witness ==
    \E i \in Incidents :
        /\ Len(merged[i]) = 3
        /\ incidents[i].severity = "CRITICAL"
        /\ incidents[i].last_updated > incidents[i].created_at
        /\ incidents[i].status = "OPEN"

\* C25: at every point at most one OPEN incident has last_updated within the
\* trailing 15 minutes (the last_updated times of two OPEN incidents are more
\* than 15 minutes apart), and the incident that a cycle extends is the most
\* recently updated OPEN incident.
C25_OneRecentIncident ==
    /\ [](\A i, j \in Incidents :
             (i # j /\ incidents[i].status = "OPEN" /\ incidents[j].status = "OPEN"
                /\ incidents[i].last_updated <= incidents[j].last_updated)
             => incidents[j].last_updated - incidents[i].last_updated
                   > CORRELATION_WINDOW_MINUTES)
    /\ [](Cardinality(ActiveIncidents(incidents, now)) <= 1)
    /\ [][\A i \in Incidents :
             incidents'[i] # incidents[i] =>
                \A j \in Incidents :
                   incidents[j].status = "OPEN" =>
                      incidents[j].last_updated <= incidents[i].last_updated]_vars

\* with an older incident out of the window, a cycle extended the newer one
C25_Witness ==
    /\ Len(incidents) = 2
    /\ Len(merged[2]) = 2
    /\ incidents[2].last_updated = now
    /\ incidents[1].last_updated < now - CORRELATION_WINDOW_MINUTES
    /\ incidents[1].status = "OPEN"

(***************************************************************************)
(* Properties of the detection engine                                      *)
(***************************************************************************)
\* a step that ends a detection cycle
IsCycleEnd == ncycles' = ncycles + 1

\* C12: a cycle that finds fewer than 5 templates returns without raising
\* and writes no anomaly record and no incident.
C12_SkippedQuietly ==
    [][(IsCycleEnd /\ templates_found' < 5) =>
          /\ cycle_outcome' = "returned"
          /\ anomalies_collection' = anomalies_collection
          /\ incidents' = incidents]_vars

\* C14: every anomaly stored in an incident is HIGH or CRITICAL, and a cycle
\* whose anomalies are all MEDIUM leaves the incidents as they were.
C14_MediumNeverCorrelated ==
    /\ [](\A i \in Incidents :
             \A k \in 1..Len(incidents[i].anomalies) :
                incidents[i].anomalies[k].severity \in {"HIGH", "CRITICAL"})
    /\ [][(/\ IsCycleEnd
           /\ detected' # <<>>
           /\ \A k \in 1..Len(detected') : detected'[k].severity = "MEDIUM")
              => incidents' = incidents]_vars

\* a MEDIUM anomaly was recorded while an incident was open and recent, and
\* the incident was not extended
C14_Witness ==
    /\ detected # <<>>
    /\ \A k \in 1..Len(detected) : detected[k].severity = "MEDIUM"
    /\ \E k \in 1..Len(anomalies_collection) :
          /\ anomalies_collection[k].severity = "MEDIUM"
          /\ anomalies_collection[k].last_detected = now
    /\ \E i \in Incidents :
          /\ incidents[i].status = "OPEN"
          /\ incidents[i].last_updated >= now - 15
          /\ incidents[i].last_updated < now

\* C15: at most one detection cycle is running at any time.
C15_SingleFlight == in_flight <= 1

\* a second cycle is running after the first has ended
C15_Witness ==
    /\ in_flight = 1
    /\ engine_pc = "cycle"
    /\ ncycles >= 1

\* C16: after a cycle that raised, the engine starts the next cycle (for
\* every cycle but the last one of the bounded run).
C16_FailureNotFatal ==
    (cycle_outcome = "raised" /\ engine_pc # "cycle" /\ ncycles < MaxCycles)
        ~> (engine_pc = "cycle")

\* the first cycle raised and the second cycle has been started
C16_Witness ==
    /\ ncycles = 1
    /\ cycle_outcome = "raised"
    /\ engine_pc = "cycle"
    /\ in_flight = 1

\* C19: no two anomaly records have the same template id, and after a cycle
\* every template it flagged has exactly one record, the one of this cycle.
C19_OneRecordPerTemplate ==
    /\ [](\A j, k \in 1..Len(anomalies_collection) :
             j # k => anomalies_collection[j].id # anomalies_collection[k].id)
    /\ [][(IsCycleEnd /\ cycle_outcome' = "returned") =>
             \A r \in 1..Len(detected') :
                \E k \in 1..Len(anomalies_collection') :
                   /\ anomalies_collection'[k].id = detected'[r].template_id
                   /\ anomalies_collection'[k].severity = detected'[r].severity
                   /\ anomalies_collection'[k].last_detected = now']_vars

\* a template flagged HIGH by one cycle and MEDIUM by a later one has one
\* record, the later one
C19_Witness ==
    /\ Len(anomalies_collection) = 1
    /\ anomalies_collection[1].severity = "MEDIUM"
    /\ anomalies_collection[1].last_detected = now
    /\ \E i \in Incidents :
          \E k \in 1..Len(incidents[i].anomalies) :
             /\ incidents[i].anomalies[k].template_id = anomalies_collection[1].id
             /\ incidents[i].anomalies[k].timestamp < now

(***************************************************************************)
(* Properties of ingestion                                                 *)
(***************************************************************************)
\* the requests that are past their first step and have not returned
InFlight == {i \in 1..Len(requests) : requests[i].status = 0}

\* C17: in every interleaving of requests, each entry of the registry was
\* taken as new by exactly one parse call, and its counter is the number of
\* parse calls that mapped to its template id.
C17_RegistrySafe ==
    /\ DOMAIN parse_calls = DOMAIN template_dict
    /\ \A t \in DOMAIN template_dict :
          /\ t \in DOMAIN first_sightings
          /\ first_sightings[t] = 1
          /\ template_dict[t].count = parse_calls[t]

\* two requests are in flight together, a batch of two and another request,
\* and all their events have the same template
C17_Witness ==
    /\ Cardinality(InFlight) = 2
    /\ \E t \in DOMAIN template_dict :
          /\ template_dict[t].count = 3
          /\ parse_calls[t] = 3

\* C18: a block stored for a template id is never modified or replaced.
C18_BlockImmutable ==
    [][\A t \in DOMAIN compressed_collection :
          /\ t \in DOMAIN compressed_collection'
          /\ compressed_collection'[t] = compressed_collection[t]]_vars

\* C24: in every interleaving of requests the count stored for a template
\* never decreases, and once every request has returned 202 the stored count
\* equals the registry's counter for that template.
C24_StoredCountFollowsRegistry ==
    /\ [][\A k \in DOMAIN templates_collection :
             /\ k \in DOMAIN templates_collection'
             /\ templates_collection'[k].count >= templates_collection[k].count]_vars
    /\ []((\A i \in 1..Len(requests) : requests[i].status = 202) =>
             \A t \in DOMAIN template_dict :
                /\ hexdigest(t) \in DOMAIN templates_collection
                /\ templates_collection[hexdigest(t)].count = template_dict[t].count)

\* C26: a request that fails with an error leaves the registry's entries and
\* counters as they were before the request.
C26_FailedRequestLeavesRegistry ==
    [][(/\ Len(requests') = Len(requests) + 1
        /\ requests'[Len(requests')].status = 500)
       => template_dict' = template_dict]_vars

(***************************************************************************)
(* Properties of the feature engineering                                   *)
(***************************************************************************)
\* the stored events that carry the content-hash template id t_id, from since on
EventsCarrying(t_id, since) ==
    Cardinality({i \in 1..Len(logs_collection) :
                    /\ logs_collection[i].template_id = t_id
                    /\ logs_collection[i].timestamp >= since})

\* C21: the lifetime frequency that engineer_features uses for a template is
\* the count that ingestion stored in its template document, and the counts of
\* the last hour and of the last 24 hours are taken over the stored events
\* that carry the template's content-hash id.
C21_ReadsWhatIngestionWrote ==
    [][/\ (Engineering /\ ~Counting /\ Counting') =>
             frequency_call'[1].freq_1h =
                EventsCarrying(df[Len(feature_rows) + 1]["template_id"], last_1h(now))
       /\ Len(feature_rows') = Len(feature_rows) + 1 =>
             LET row == df[Len(feature_rows')]
                 features == feature_rows'[Len(feature_rows')]
             IN /\ features.freq_total = row["count"]
                /\ features.freq_24h = EventsCarrying(row["template_id"], last_24h(now))]_vars

\* 0 <= freq_1h <= freq_24h and 0 <= burst_ratio <= 24
InRange(freq_1h, freq_24h, ratio) ==
    /\ 0 <= freq_1h
    /\ freq_1h <= freq_24h
    /\ ratio.den > 0
    /\ 0 <= ratio.num
    /\ ratio.num <= 24 * ratio.den

\* C27: for every template of every cycle, also with events ingested between
\* the two window queries, 0 <= freq_1h <= freq_24h, and burst_ratio =
\* freq_1h / max(freq_24h / 24, 1) lies in [0, 24].
C27_BurstRatioBounded ==
    /\ (frequency_call # <<>> /\ frequency_call[1].pc = "returned") =>
          InRange(frequency_call[1].freq_1h, frequency_call[1].freq_24h,
                  burst_ratio(frequency_call[1].freq_1h, frequency_call[1].freq_24h))
    /\ \A k \in 1..Len(feature_rows) :
          InRange(feature_rows[k].freq_1h, feature_rows[k].freq_24h,
                  feature_rows[k].burst_ratio)

\* with every stored event inside the last hour, a call counted more than 24
\* events in its first query and one more in its second: an event was
\* stored between the two
C27_Witness ==
    /\ now = 30
    /\ frequency_call # <<>>
    /\ frequency_call[1].pc = "returned"
    /\ frequency_call[1].freq_1h > 24
    /\ frequency_call[1].freq_24h = frequency_call[1].freq_1h + 1

====
